---- MODULE Spec2Model ----
(***************************************************************************)
(* Model of the TLS scan engine of cipherwyze-tls-scanner (src/src/scan.ts) *)
(* Strings on which the code runs a regular expression or a string method  *)
(* are sequences of one-character strings, so that each test is computed   *)
(* character by character as the code computes it.                         *)
(***************************************************************************)
EXTENDS Integers, Sequences, FiniteSets, TLC

VARIABLES
  pc,          \* where each call of scanTls stands
  domain,      \* its argument
  dnsLookups,  \* the number of calls of dns.lookup it has made
  lookup,      \* what its dns.lookup promise settled with
  resolvedIPs, \* its constant resolvedIPs, scan.ts line 31
  scannedAt,   \* its constant scannedAt, scan.ts line 32
  lastErr,     \* its variable lastErr
  idx,         \* the position of its for loop in resolvedIPs
  socks,       \* the sockets it has created, one per call of connectOnce
  result,      \* the value it returned
  error,       \* the error it threw
  http,        \* the GET /scan request that called it, and its responses
  now          \* the wall clock

vars == <<pc, domain, dnsLookups, lookup, resolvedIPs, scannedAt, lastErr, idx,
          socks, result, error, http, now>>

----------------------------------------------------------------------------
(* Bounds of the model *)

MaxDomLen == 2
MaxAddrs == 3
MaxClock == 1

----------------------------------------------------------------------------
(* Characters and string helpers *)

Digits == {"0", "1", "2", "3", "4", "5", "6", "7", "8", "9"}
LowerSeq == <<"a", "b", "c", "d", "e", "f", "g", "h", "i", "j", "k", "l", "m",
              "n", "o", "p", "q", "r", "s", "t", "u", "v", "w", "x", "y", "z">>
UpperSeq == <<"A", "B", "C", "D", "E", "F", "G", "H", "I", "J", "K", "L", "M",
              "N", "O", "P", "Q", "R", "S", "T", "U", "V", "W", "X", "Y", "Z">>
Letters == {LowerSeq[i] : i \in 1..26} \cup {UpperSeq[i] : i \in 1..26}

ToLower(c) ==
  IF \E i \in 1..26 : UpperSeq[i] = c
  THEN LowerSeq[CHOOSE i \in 1..26 : UpperSeq[i] = c]
  ELSE c

ToUpper(c) ==
  IF \E i \in 1..26 : LowerSeq[i] = c
  THEN UpperSeq[CHOOSE i \in 1..26 : LowerSeq[i] = c]
  ELSE c

\* The characters of a string literal
Chars(str) == [i \in 1..Len(str) |-> SubSeq(str, i, i)]

\* String.prototype.includes
Includes(hay, needle) ==
  \E i \in 0..(Len(hay) - Len(needle)) :
    \A j \in 1..Len(needle) : hay[i + j] = needle[j]

MapStr(F(_), str) == [i \in 1..Len(str) |-> F(str[i])]

\* The parts of str between the occurrences of the character sep
RECURSIVE SplitOn(_, _)
SplitOn(str, sep) ==
  IF \A i \in 1..Len(str) : str[i] # sep
  THEN <<str>>
  ELSE LET k == CHOOSE i \in 1..Len(str) :
                  str[i] = sep /\ \A j \in 1..(i - 1) : str[j] # sep
       IN <<SubSeq(str, 1, k - 1)>> \o SplitOn(SubSeq(str, k + 1, Len(str)), sep)

\* All strings of length at most n over the alphabet A
RECURSIVE StringsUpTo(_, _)
StringsUpTo(A, n) ==
  IF n = 0 THEN {<<>>}
  ELSE LET shorter == StringsUpTo(A, n - 1)
       IN shorter \cup {Append(w, c) : w \in shorter, c \in A}

----------------------------------------------------------------------------
(* isAsciiHostname, scan.ts lines 6-9 *)

MaxHostLen == 255
HostChars == Letters \cup Digits \cup {".", "-"}
HexChars == Digits \cup {"a", "b", "c", "d", "e", "f"}

\* /^[A-Za-z0-9.-]{1,255}$/
MatchesHostClass(host) ==
  /\ Len(host) >= 1
  /\ Len(host) <= MaxHostLen
  /\ \A i \in 1..Len(host) : host[i] \in HostChars

\* /^\d{1,3}(\.\d{1,3}){3}$/
MatchesIPv4(host) ==
  LET parts == SplitOn(host, ".")
  IN /\ Len(parts) = 4
     /\ \A k \in 1..4 :
          /\ Len(parts[k]) \in 1..3
          /\ \A i \in 1..Len(parts[k]) : parts[k][i] \in Digits

\* /^[0-9a-f:]+$/i
MatchesIPv6(host) ==
  /\ Len(host) >= 1
  /\ \A i \in 1..Len(host) : ToLower(host[i]) \in HexChars \cup {":"}

\* isAsciiHostname without the test of line 8
isAsciiHostnameNoIPv4(host) == MatchesHostClass(host) /\ ~MatchesIPv6(host)

isAsciiHostname(host) ==
  MatchesHostClass(host) /\ ~MatchesIPv4(host) /\ ~MatchesIPv6(host)

----------------------------------------------------------------------------
(* Values *)

Scans == {1, 2}

\* null / undefined of a string-valued or timestamp-valued field
Null == <<"null">>
\* undefined of the variable lastErr, and of the other object-valued slots
Undefined == [undef |-> TRUE]

Falsy(v) == v = Null \/ v = <<>>
OrElse(v, d) == IF Falsy(v) THEN d ELSE v

\* new Date(ms).toISOString() of the clock value t
ToISOString(t) == <<"iso", t>>

InvalidDomainMsg ==
  Chars("Invalid domain")
DnsLookupFailedPrefix ==
  Chars("DNS lookup failed: ")
NoRecordsMsg ==
  Chars("No A/AAAA records")
TlsConnectFailedMsg ==
  Chars("TLS connect failed")
TlsErrorPrefix == Chars("TLS error: ")
TimeoutMsg == Chars("timeout")

MkError(message, status) == [message |-> message, status |-> status]

\* scan.ts line 13
InvalidDomainError == MkError(InvalidDomainMsg, 400)
\* DnsError with the message of a handshake failure
DnsErrorAsTls(emsg) == MkError(TlsErrorPrefix \o emsg, 502)

\* scan.ts lines 16-20
DnsError(emsg) == MkError(DnsLookupFailedPrefix \o emsg, 502)
\* scan.ts line 28
NoRecordsError == MkError(NoRecordsMsg, 502)

\* /timeout/i.test(msg), scan.ts line 165
TestTimeout(msg) == Includes(MapStr(ToLower, msg), TimeoutMsg)

\* TlsError without the classification of line 165
TlsErrorUnclassified(emsg) == MkError(TlsErrorPrefix \o emsg, 502)

\* scan.ts lines 164-165: the error the socket "error" handler rejects with
TlsError(emsg) ==
  MkError(TlsErrorPrefix \o emsg, IF TestTimeout(emsg) THEN 504 ELSE 502)

\* FinalError reading a lastErr that the scans share
FinalErrorShared(lerr) ==
  LET seen == IF lastErr[2] # Undefined THEN lastErr[2] ELSE lerr
  IN MkError(IF seen = Undefined \/ Falsy(seen.message)
             THEN TlsConnectFailedMsg ELSE seen.message,
             IF seen = Undefined \/ seen.status = 0
             THEN 502 ELSE seen.status)

\* scan.ts lines 45-47
FinalError(lerr) ==
  MkError(IF lerr = Undefined \/ Falsy(lerr.message)
          THEN TlsConnectFailedMsg ELSE lerr.message,
          IF lerr = Undefined \/ lerr.status = 0
          THEN 502 ELSE lerr.status)

\* scan.ts lines 24-25
FilterFamily(addrs, fam) == SelectSeq(addrs, LAMBDA a : a.family = fam)

\* SortAddrs with the two families exchanged
SortAddrsV6First(addrs) == FilterFamily(addrs, 6) \o FilterFamily(addrs, 4)

\* server.ts line 62: res.json(result), with the default status
JsonResult(res) == [status |-> 200, body |-> res]

\* StatusOf answering every failure with 502
StatusAlways502(e) == 502

\* server.ts line 64: e.status || 502
StatusOf(e) == IF e.status = 0 THEN 502 ELSE e.status

\* server.ts lines 64-65
JsonError(e) ==
  [status |-> StatusOf(e),
   body |-> [error |-> OrElse(e.message, Chars("scan failed"))]]

\* scan.ts lines 23-26
SortAddrs(addrs) == FilterFamily(addrs, 4) \o FilterFamily(addrs, 6)

\* scan.ts line 31
MapAddress(sorted) == [i \in 1..Len(sorted) |-> sorted[i].address]

\* Catch keeping the first error recorded
CatchFirst(lerr, e) == IF lerr = Undefined THEN e ELSE lerr

\* scan.ts lines 40-41: the value of lastErr after e is caught
Catch(lerr, e) == e

\* ReturnValue losing the fingerprint of the attempt
ReturnValueDropsCert(res, ips, at) ==
  [res EXCEPT !.resolvedIPs = ips, !.scannedAt = at,
              !.cert = [@ EXCEPT !.fingerprint256 = Null]]

\* scan.ts line 39: { ...result, resolvedIPs, scannedAt }
ReturnValue(res, ips, at) == [res EXCEPT !.resolvedIPs = ips, !.scannedAt = at]

\* scan.ts lines 51-62: the socket, its timer and the promise of one attempt;
\* hs is the session the socket holds once its handshake has completed,
\* writableEnded whether socket.end() was called
NewSocket(ip) ==
  [ip |-> ip, state |-> "connecting", timer |-> "armed", pendingErr |-> Null,
   onError |-> TRUE, onSecureConnect |-> TRUE, hs |-> Undefined,
   writableEnded |-> FALSE,
   promise |-> "pending", value |-> Undefined]

\* Destroy leaving the socket as it is
DestroyNot(sock, emsg) == sock

\* socket.destroy(err): the socket is torn down and emits err on the next
\* tick; a socket already destroyed is left as it is
Destroy(sock, emsg) ==
  IF sock.state = "destroyed" THEN sock
  ELSE [sock EXCEPT !.state = "destroyed", !.pendingErr = emsg]

\* ErrorHandler without the clearTimeout of line 163
ErrorHandlerKeepsTimer(sock) ==
  [sock EXCEPT !.onError = FALSE,
               !.pendingErr = Null,
               !.promise = IF @ = "pending" THEN "rejected" ELSE @,
               !.value = IF sock.promise = "pending"
                         THEN TlsError(sock.pendingErr) ELSE @]

\* scan.ts lines 162-167: the "error" handler, run once for the error the
\* socket emits; reject does nothing to a promise already settled
ErrorHandler(sock) ==
  [sock EXCEPT !.onError = FALSE,
               !.pendingErr = Null,
               !.timer = IF @ = "armed" THEN "cleared" ELSE @,
               !.promise = IF @ = "pending" THEN "rejected" ELSE @,
               !.value = IF sock.promise = "pending"
                         THEN TlsError(sock.pendingErr) ELSE @]

----------------------------------------------------------------------------
(* connectOnce: data capture, certificate extraction and posture,           *)
(* scan.ts lines 64-160                                                     *)

DigitSeq == <<"0", "1", "2", "3", "4", "5", "6", "7", "8", "9">>
\* the value a numeric property has when it is undefined
NoNumber == -1

\* String(n) of a non-negative integer
RECURSIVE NumToStr(_)
NumToStr(n) ==
  IF n < 10 THEN <<DigitSeq[n + 1]>>
  ELSE NumToStr(n \div 10) \o <<DigitSeq[(n % 10) + 1]>>

RECURSIVE DecVal(_)
DecVal(str) ==
  IF str = <<>> THEN 0
  ELSE DecVal(SubSeq(str, 1, Len(str) - 1)) * 10
       + ((CHOOSE i \in 1..10 : DigitSeq[i] = str[Len(str)]) - 1)

\* Number(v) || 0 for null, the empty string and strings of decimal digits;
\* any other string is NaN
NumberOrZero(v) ==
  IF v = Null \/ v = <<>> THEN 0
  ELSE IF \A i \in 1..Len(v) : v[i] \in Digits THEN DecVal(v)
  ELSE 0

\* new Date(d).toISOString() of the date string d that the TLS library
\* printed for the instant t, modelled as <<"openssl", t>>
DateToISO(d) == ToISOString(d[2])

\* x.fingerprint256.replace(/:/g, ""), scan.ts line 90
StripColons(str) == SelectSeq(str, LAMBDA c : c # ":")

\* extractCN, scan.ts lines 171-175: /CN=([^,]+)/
extractCN(subject) ==
  LET starts == {i \in 1..(Len(subject) - 3) :
                   /\ SubSeq(subject, i, i + 2) = Chars("CN=")
                   /\ subject[i + 3] # ","}
  IN IF starts = {} THEN Null
     ELSE LET i == CHOOSE k \in starts : \A j \in starts : k <= j
              stop == CHOOSE e \in (i + 3)..Len(subject) :
                        /\ \A j \in (i + 3)..e : subject[j] # ","
                        /\ (e = Len(subject) \/ subject[e + 1] = ",")
          IN SubSeq(subject, i + 3, stop)

\* String.prototype.trim for the blank character
RECURSIVE Trim(_)
Trim(str) ==
  IF str = <<>> THEN str
  ELSE IF str[1] = " " THEN Trim(SubSeq(str, 2, Len(str)))
  ELSE IF str[Len(str)] = " " THEN Trim(SubSeq(str, 1, Len(str) - 1))
  ELSE str

StartsWith(str, prefix) ==
  Len(str) >= Len(prefix) /\ SubSeq(str, 1, Len(prefix)) = prefix

\* extractSANs, scan.ts lines 177-189
extractSANs(x) ==
  IF x.sanThrows \/ Falsy(x.subjectAltName) THEN <<>>
  ELSE LET parts == SplitOn(x.subjectAltName, ",")
           trimmed == [i \in 1..Len(parts) |-> Trim(parts[i])]
           dns == SelectSeq(trimmed, LAMBDA e : StartsWith(e, Chars("DNS:")))
       IN [i \in 1..Len(dns) |-> SubSeq(dns[i], 5, Len(dns[i]))]

\* scan.ts lines 77-85
DefaultCert ==
  [cn |-> Null, issuer |-> Null, notBefore |-> Null, notAfter |-> Null,
   san |-> <<>>, signatureAlgorithm |-> Null, keyType |-> "unknown",
   keyBitsOrCurve |-> Null, fingerprint256 |-> Null]

\* scan.ts lines 103-117: the key type assigned for ktype
KeyTypeOf(ktype) ==
  IF ktype \in {"rsa", "ec", "ed25519", "ed448"} THEN ktype ELSE "unknown"

\* The statements of the raw-bytes branch, scan.ts lines 89-117, in order
NRawSteps == 11
RawStep(k, c, x) ==
  CASE k = 1 -> c
    [] k = 2 -> [c EXCEPT !.fingerprint256 = StripColons(x.fingerprint256)]
    [] k = 3 -> [c EXCEPT !.issuer = OrElse(x.issuer, Null)]
    [] k = 4 -> [c EXCEPT !.notBefore =
                   IF Falsy(x.validFrom) THEN Null ELSE DateToISO(x.validFrom)]
    [] k = 5 -> [c EXCEPT !.notAfter =
                   IF Falsy(x.validTo) THEN Null ELSE DateToISO(x.validTo)]
    [] k = 6 -> [c EXCEPT !.signatureAlgorithm =
                   OrElse(x.signatureAlgorithm, Null)]
    [] k = 7 -> [c EXCEPT !.cn = OrElse(extractCN(x.subject), Null)]
    [] k = 8 -> [c EXCEPT !.san = extractSANs(x)]
    [] k = 9 -> c
    [] k = 10 -> [c EXCEPT !.keyType = KeyTypeOf(x.ktype)]
    [] k = 11 -> [c EXCEPT !.keyBitsOrCurve =
                   IF x.ktype = "rsa"
                   THEN IF x.modulusLength = NoNumber THEN <<>>
                        ELSE NumToStr(x.modulusLength)
                   ELSE IF x.ktype = "ec" THEN x.namedCurve
                   ELSE @]

\* statement k of the raw-bytes branch raises: the constructor or a getter
\* of the X509Certificate throws
RawThrows(k, hs) == hs.throwAt = k

\* The statements of the fallback branch, scan.ts lines 120-123, in order
NSummarySteps == 4
SummaryStep(k, c, peer) ==
  CASE k = 1 -> [c EXCEPT !.cn = peer.subjectCN]
    [] k = 2 -> [c EXCEPT !.issuer = peer.issuerCN]
    [] k = 3 -> [c EXCEPT !.notBefore =
                   IF Falsy(peer.valid_from) THEN Null
                   ELSE DateToISO(peer.valid_from)]
    [] k = 4 -> [c EXCEPT !.notAfter =
                   IF Falsy(peer.valid_to) THEN Null
                   ELSE DateToISO(peer.valid_to)]

\* RunRaw with a catch block that resets the fields
RECURSIVE RunRawDiscarding(_, _, _)
RunRawDiscarding(k, c, hs) ==
  IF k > NRawSteps THEN c
  ELSE IF RawThrows(k, hs) THEN DefaultCert
  ELSE RunRawDiscarding(k + 1, RawStep(k, c, hs.x), hs)

\* scan.ts lines 87-127: the try block runs until a statement raises; the
\* catch block keeps what was assigned
RECURSIVE RunRaw(_, _, _)
RunRaw(k, c, hs) ==
  IF k > NRawSteps \/ RawThrows(k, hs) THEN c
  ELSE RunRaw(k + 1, RawStep(k, c, hs.x), hs)

\* the fallback branch reads plain properties of the summary and converts
\* the date strings the TLS library printed: none of its statements raises
RECURSIVE RunSummary(_, _, _)
RunSummary(k, c, hs) ==
  IF k > NSummarySteps THEN c
  ELSE RunSummary(k + 1, SummaryStep(k, c, hs.peer), hs)

\* ExtractCert without the test of line 88
ExtractCertAlwaysRaw(hs) == RunRaw(1, DefaultCert, hs)

\* scan.ts lines 77-127
ExtractCert(hs) ==
  IF hs.peer.raw THEN RunRaw(1, DefaultCert, hs)
  ELSE RunSummary(1, DefaultCert, hs)

TLSv13 == Chars("TLSv1.3")
TLSv12 == Chars("TLSv1.2")

\* TlsOk accepting every version that is present
TlsOkAnyVersion(tlsVersion) == ~Falsy(tlsVersion)

\* scan.ts line 131
TlsOk(tlsVersion) ==
  ~Falsy(tlsVersion) /\ (tlsVersion = TLSv13 \/ tlsVersion = TLSv12)

\* WeakAlg counting a 2048-bit RSA key as weak
WeakAlgInclusive(c, cipherSuite) ==
  \/ c.keyType = "rsa" /\ NumberOrZero(c.keyBitsOrCurve) <= 2048
  \/ Includes(MapStr(ToLower, OrElse(c.signatureAlgorithm, <<>>)), Chars("sha1"))
  \/ Includes(MapStr(ToUpper, OrElse(cipherSuite, <<>>)), Chars("RC4"))
  \/ Includes(MapStr(ToUpper, OrElse(cipherSuite, <<>>)), Chars("3DES"))

\* scan.ts lines 132-136
WeakAlg(c, cipherSuite) ==
  \/ c.keyType = "rsa" /\ NumberOrZero(c.keyBitsOrCurve) < 2048
  \/ Includes(MapStr(ToLower, OrElse(c.signatureAlgorithm, <<>>)), Chars("sha1"))
  \/ Includes(MapStr(ToUpper, OrElse(cipherSuite, <<>>)), Chars("RC4"))
  \/ Includes(MapStr(ToUpper, OrElse(cipherSuite, <<>>)), Chars("3DES"))

\* PqcReady classifying RSA keys only
PqcReadyRsaOnly(c) == IF c.keyType = "rsa" THEN "no" ELSE "unknown"

\* scan.ts lines 137-138
PqcReady(c) == IF c.keyType = "ec" \/ c.keyType = "rsa" THEN "no" ELSE "unknown"

\* EndAfterCapture closing the connection only when the try block completed
EndOnlyOnSuccess(sock, hs) ==
  IF hs.peer.raw /\ \E k \in 1..NRawSteps : RawThrows(k, hs) THEN sock
  ELSE [sock EXCEPT !.state = "ended", !.writableEnded = TRUE]

\* scan.ts lines 127-129: the finally block, socket.end()
EndAfterCapture(sock, hs) ==
  [sock EXCEPT !.state = "ended", !.writableEnded = TRUE]

\* scan.ts lines 67-159: the value the secureConnect handler resolves with
ConnectResult(d, ip, hs, t) ==
  LET tlsVersion == hs.protocol
      alpn == OrElse(hs.alpnProtocol, Null)
      cipherSuite == OrElse(hs.cipherName, Null)
      c == ExtractCert(hs)
  IN [domain |-> d,
      resolvedIPs |-> <<ip>>,
      tlsVersion |-> tlsVersion,
      alpn |-> alpn,
      cipherSuite |-> cipherSuite,
      cert |-> c,
      posture |-> [tls_ok |-> TlsOk(tlsVersion),
                   weak_alg |-> WeakAlg(c, cipherSuite),
                   pqc_ready |-> PqcReady(c)],
      scannedAt |-> ToISOString(t)]

----------------------------------------------------------------------------
(* Inputs *)

DomainAlphabet == {"a", "g", "1", ".", ":", "/"}
SampleDomains ==
  { Chars("192.168.0.1"),
    Chars("::1"),
    Chars("1.1.1.1.1"),
    Chars("999.1.22.333"),
    Chars("cafe"),
    Chars("a-B.io") }
\* the arguments of the validation-level specification
Domains == StringsUpTo(DomainAlphabet, MaxDomLen) \cup SampleDomains
\* the arguments of the scan-level specification
ScanDomains == {Chars("a-B.io"), Chars("192.168.0.1"), <<>>}

AddrPool ==
  { [address |-> "192.0.2.1", family |-> 4],
    [address |-> "192.0.2.2", family |-> 4],
    [address |-> "2001:db8::1", family |-> 6],
    [address |-> "2001:db8::2", family |-> 6] }

\* dns.lookup(domain, {all: true}): any list of distinct address records
RECURSIVE AddrListsUpTo(_)
AddrListsUpTo(n) ==
  IF n = 0 THEN {<<>>}
  ELSE LET shorter == AddrListsUpTo(n - 1)
       IN shorter \cup
          {Append(l, a) : l \in shorter,
                          a \in AddrPool}
AddrLists ==
  {l \in AddrListsUpTo(MaxAddrs) :
     \A i, j \in 1..Len(l) : i # j => l[i] # l[j]}

\* the lookup results of the validation-level and extraction-level
\* specifications
FewAddrLists ==
  { <<>>,
    <<[address |-> "192.0.2.1", family |-> 4]>>,
    <<[address |-> "2001:db8::1", family |-> 6],
      [address |-> "192.0.2.1", family |-> 4]>> }

DnsErrMsgs == { Chars("ENOTFOUND"), <<>> }

\* messages of the errors a socket emits by itself
NetErrMsgs ==
  { Chars("reset"),
    Chars("ETIMEOUT"),
    <<>> }

\* what new X509Certificate(raw) exposes
BaseX ==
  [fingerprint256 |-> Chars("AB:0C:9F"),
   issuer |-> Chars("C=US,CN=R3"),
   validFrom |-> <<"openssl", 1>>,
   validTo |-> <<"openssl", 9>>,
   signatureAlgorithm |-> Chars("sha256WithRSA"),
   subject |-> Chars("O=x,CN=a.io,C=y"),
   subjectAltName |-> Chars("DNS:a.io, IP:1, DNS:b.io"),
   sanThrows |-> FALSE,
   ktype |-> "rsa",
   modulusLength |-> 2048,
   namedCurve |-> Null]

Xs ==
  { BaseX,
    [BaseX EXCEPT !.modulusLength = 1024],
    [BaseX EXCEPT !.modulusLength = NoNumber],
    [BaseX EXCEPT !.ktype = "ec", !.modulusLength = NoNumber,
                  !.namedCurve = Chars("prime256v1")],
    [BaseX EXCEPT !.ktype = "ec", !.modulusLength = NoNumber],
    [BaseX EXCEPT !.ktype = "ed25519", !.modulusLength = NoNumber],
    [BaseX EXCEPT !.ktype = "ed448", !.modulusLength = NoNumber],
    [BaseX EXCEPT !.ktype = "dsa", !.modulusLength = NoNumber],
    [BaseX EXCEPT !.signatureAlgorithm = Chars("ecdsa-with-SHA1")],
    [BaseX EXCEPT !.signatureAlgorithm = Null],
    [BaseX EXCEPT !.issuer = <<>>, !.subject = Chars("O=x")],
    [BaseX EXCEPT !.validFrom = Null],
    [BaseX EXCEPT !.validTo = <<>>, !.subjectAltName = Null],
    [BaseX EXCEPT !.sanThrows = TRUE] }

\* what socket.getPeerCertificate(true) returns: the summary, and whether
\* the raw bytes are there
BasePeer ==
  [raw |-> TRUE,
   subjectCN |-> Chars("a.io"),
   issuerCN |-> Chars("R3"),
   valid_from |-> <<"openssl", 1>>,
   valid_to |-> <<"openssl", 9>>]

SummaryPeers ==
  { [BasePeer EXCEPT !.raw = FALSE],
    [BasePeer EXCEPT !.raw = FALSE, !.subjectCN = Null, !.issuerCN = Null],
    [BasePeer EXCEPT !.raw = FALSE, !.valid_from = Null, !.valid_to = Null],
    [BasePeer EXCEPT !.raw = FALSE, !.subjectCN = <<>>, !.valid_to = <<>>] }

Protocols == {TLSv13, TLSv12, Chars("TLSv1.1"), Chars("TLSv1"), Null}
CipherNames ==
  { Chars("TLS_AES_128_GCM_SHA256"), Chars("ECDHE-RSA-rc4-SHA"),
    Chars("DES-CBC3-SHA"), Chars("ECDHE-RSA-3des-EDE"), Null }
AlpnProtocols == {Chars("h2"), <<>>, Null}

BaseHandshake ==
  [protocol |-> TLSv13,
   alpnProtocol |-> Chars("h2"),
   cipherName |-> Chars("TLS_AES_128_GCM_SHA256"),
   peer |-> BasePeer,
   x |-> BaseX,
   throwAt |-> 0]

\* the completed handshakes of the scan-level specification
CoreHandshakes ==
  { BaseHandshake,
    [BaseHandshake EXCEPT !.peer = [BasePeer EXCEPT !.raw = FALSE]] }

\* the completed handshakes of the extraction-level specification
Handshakes ==
  {[BaseHandshake EXCEPT !.x = x] : x \in Xs}
  \cup {[BaseHandshake EXCEPT !.x = x, !.throwAt = k] :
          x \in {BaseX, [BaseX EXCEPT !.ktype = "ec", !.modulusLength = NoNumber,
                                      !.namedCurve = Chars("prime256v1")]},
          k \in 1..NRawSteps}
  \cup {[BaseHandshake EXCEPT !.peer = p] : p \in SummaryPeers}
  \cup {[BaseHandshake EXCEPT !.protocol = v, !.cipherName = n] :
          v \in Protocols, n \in CipherNames}
  \cup {[BaseHandshake EXCEPT !.alpnProtocol = a] : a \in AlpnProtocols}

----------------------------------------------------------------------------
(* State machine *)

Init ==
  /\ pc = [s \in Scans |-> "idle"]
  /\ domain = [s \in Scans |-> <<>>]
  /\ dnsLookups = [s \in Scans |-> 0]
  /\ lookup = [s \in Scans |-> Undefined]
  /\ resolvedIPs = [s \in Scans |-> <<>>]
  /\ scannedAt = [s \in Scans |-> Null]
  /\ lastErr = [s \in Scans |-> Undefined]
  /\ idx = [s \in Scans |-> 0]
  /\ socks = [s \in Scans |-> <<>>]
  /\ result = [s \in Scans |-> Undefined]
  /\ error = [s \in Scans |-> Undefined]
  /\ http = [s \in Scans |-> [state |-> "idle", sent |-> <<>>]]
  /\ now = 0

\* scanTls lines 11-16: validation, then the call of dns.lookup; the caller
\* is the GET /scan handler, server.ts lines 57-61, which awaits the scan
ScanTls(s, d) ==
  /\ pc[s] = "idle"
  /\ http[s].state = "idle"
  /\ http' = [http EXCEPT ![s].state = "awaiting"]
  /\ domain' = [domain EXCEPT ![s] = d]
  /\ IF ~isAsciiHostname(d)
     THEN /\ pc' = [pc EXCEPT ![s] = "failed"]
          /\ error' = [error EXCEPT ![s] = InvalidDomainError]
          /\ UNCHANGED dnsLookups
     ELSE /\ pc' = [pc EXCEPT ![s] = "lookup"]
          /\ dnsLookups' = [dnsLookups EXCEPT ![s] = @ + 1]
          /\ UNCHANGED error
  /\ UNCHANGED <<lookup, resolvedIPs, scannedAt, lastErr, idx, socks, result,
                 now>>

\* scanTls lines 16-20: dns.lookup rejects with e
LookupError(s, emsg) ==
  /\ pc[s] = "lookup"
  /\ pc' = [pc EXCEPT ![s] = "failed"]
  /\ error' = [error EXCEPT ![s] = DnsError(emsg)]
  /\ lookup' = [lookup EXCEPT ![s] = [ok |-> FALSE, message |-> emsg]]
  /\ UNCHANGED <<domain, dnsLookups, resolvedIPs, scannedAt, lastErr, idx,
                 socks, result, now>>
  /\ UNCHANGED http

\* LoopFrom connecting to the first candidate at every iteration
LoopFromFirst(s, ips, k, lerr) ==
  /\ lastErr' = [lastErr EXCEPT ![s] = lerr]
  /\ IF k <= Len(ips)
     THEN /\ idx' = [idx EXCEPT ![s] = k]
          /\ socks' = [socks EXCEPT ![s] = Append(@, NewSocket(ips[1]))]
          /\ pc' = [pc EXCEPT ![s] = "await"]
          /\ UNCHANGED error
     ELSE /\ pc' = [pc EXCEPT ![s] = "failed"]
          /\ error' = [error EXCEPT ![s] = FinalError(lerr)]
          /\ UNCHANGED <<idx, socks>>

\* scanTls lines 36-47: the loop from candidate k on, up to its next await
\* or its throw; lerr is the value of lastErr on entry
LoopFrom(s, ips, k, lerr) ==
  /\ lastErr' = [lastErr EXCEPT ![s] = lerr]
  /\ IF k <= Len(ips)
     THEN /\ idx' = [idx EXCEPT ![s] = k]
          /\ socks' = [socks EXCEPT ![s] = Append(@, NewSocket(ips[k]))]
          /\ pc' = [pc EXCEPT ![s] = "await"]
          /\ UNCHANGED error
     ELSE /\ pc' = [pc EXCEPT ![s] = "failed"]
          /\ error' = [error EXCEPT ![s] = FinalError(lerr)]
          /\ UNCHANGED <<idx, socks>>

\* scanTls lines 16-38: dns.lookup resolves with addrs
LookupReturn(s, addrs) ==
  /\ pc[s] = "lookup"
  /\ lookup' = [lookup EXCEPT ![s] = [ok |-> TRUE, addrs |-> addrs]]
  /\ LET sorted == SortAddrs(addrs)
         ips == MapAddress(sorted)
     IN IF Len(sorted) = 0
        THEN /\ pc' = [pc EXCEPT ![s] = "failed"]
             /\ error' = [error EXCEPT ![s] = NoRecordsError]
             /\ UNCHANGED <<resolvedIPs, scannedAt, lastErr, idx, socks>>
        ELSE /\ resolvedIPs' = [resolvedIPs EXCEPT ![s] = ips]
             /\ scannedAt' = [scannedAt EXCEPT ![s] = ToISOString(now)]
             /\ LoopFrom(s, ips, 1, Undefined)
  /\ UNCHANGED <<domain, dnsLookups, result, now>>
  /\ UNCHANGED http

\* connectOnce lines 59-61: the timer of attempt i expires
OnTimeout(s, i) ==
  /\ i \in DOMAIN socks[s]
  /\ socks[s][i].timer = "armed"
  /\ socks[s][i].pendingErr = Null
  /\ socks' = [socks EXCEPT ![s][i] =
       Destroy([@ EXCEPT !.timer = "fired"], TimeoutMsg)]
  /\ UNCHANGED <<pc, domain, dnsLookups, lookup, resolvedIPs, scannedAt,
                 lastErr, idx, result, error, now>>
  /\ UNCHANGED http

\* the connection of attempt i fails by itself: the socket is destroyed with
\* an error, which it emits on the next tick
NetError(s, i, emsg) ==
  /\ i \in DOMAIN socks[s]
  /\ socks[s][i].state \in {"connecting", "ended"}
  /\ socks' = [socks EXCEPT ![s][i] = Destroy(@, emsg)]
  /\ UNCHANGED <<pc, domain, dnsLookups, lookup, resolvedIPs, scannedAt,
                 lastErr, idx, result, error, now>>
  /\ UNCHANGED http

\* connectOnce lines 162-167: the "error" handler of attempt i
OnError(s, i) ==
  /\ i \in DOMAIN socks[s]
  /\ socks[s][i].pendingErr # Null
  /\ socks[s][i].onError
  /\ socks' = [socks EXCEPT ![s][i] = ErrorHandler(@)]
  /\ UNCHANGED <<pc, domain, dnsLookups, lookup, resolvedIPs, scannedAt,
                 lastErr, idx, result, error, now>>
  /\ UNCHANGED http

\* scanTls lines 38-47: the await of connectOnce resumes
Resume(s) ==
  /\ pc[s] = "await"
  /\ socks[s][idx[s]].promise # "pending"
  /\ IF socks[s][idx[s]].promise = "resolved"
     THEN /\ result' = [result EXCEPT ![s] =
               ReturnValue(socks[s][idx[s]].value, resolvedIPs[s], scannedAt[s])]
          /\ pc' = [pc EXCEPT ![s] = "done"]
          /\ UNCHANGED <<lastErr, idx, socks, error>>
     ELSE /\ LoopFrom(s, resolvedIPs[s], idx[s] + 1,
                      Catch(lastErr[s], socks[s][idx[s]].value))
          /\ UNCHANGED result
  /\ UNCHANGED <<domain, dnsLookups, lookup, resolvedIPs, scannedAt, now>>
  /\ UNCHANGED http

\* server.ts lines 49-55: the key guard answers a request without the key
Unauthorized(s) ==
  /\ http[s].state = "idle"
  /\ http' = [http EXCEPT ![s] =
       [state |-> "finished",
        sent |-> Append(@.sent, [status |-> 401,
                                 body |-> [error |-> Chars("unauthorized")]])]]
  /\ UNCHANGED <<pc, domain, dnsLookups, lookup, resolvedIPs, scannedAt,
                 lastErr, idx, socks, result, error, now>>

\* server.ts lines 61-66: the await of scanTls resumes and the handler answers
Respond(s) ==
  /\ http[s].state = "awaiting"
  /\ pc[s] \in {"done", "failed"}
  /\ http' = [http EXCEPT ![s] =
       [state |-> "finished",
        sent |-> Append(@.sent, IF pc[s] = "done" THEN JsonResult(result[s])
                                ELSE JsonError(error[s]))]]
  /\ UNCHANGED <<pc, domain, dnsLookups, lookup, resolvedIPs, scannedAt,
                 lastErr, idx, socks, result, error, now>>

\* wall-clock time passes while some scan is suspended
Tick ==
  /\ now < MaxClock
  /\ \E s \in Scans : pc[s] \in {"lookup", "await"}
  /\ now' = now + 1
  /\ UNCHANGED <<pc, domain, dnsLookups, lookup, resolvedIPs, scannedAt,
                 lastErr, idx, socks, result, error>>
  /\ UNCHANGED http

\* connectOnce lines 64-160: the "secureConnect" handler of attempt i, for
\* the completed handshake hs
OnSecureConnect(s, i, hs) ==
  /\ i \in DOMAIN socks[s]
  /\ socks[s][i].state = "connecting"
  /\ socks[s][i].onSecureConnect
  /\ socks' = [socks EXCEPT ![s][i] =
       [EndAfterCapture(@, hs) EXCEPT
          !.onSecureConnect = FALSE,
          !.hs = hs,
          !.timer = IF @ = "armed" THEN "cleared" ELSE @,
          !.promise = IF @ = "pending" THEN "resolved" ELSE @,
          !.value = IF socks[s][i].promise = "pending"
                    THEN ConnectResult(domain[s], socks[s][i].ip, hs, now)
                    ELSE @]]
  /\ UNCHANGED <<pc, domain, dnsLookups, lookup, resolvedIPs, scannedAt,
                 lastErr, idx, result, error, now>>
  /\ UNCHANGED http

\* One scan, every lookup result and every failure, a few handshakes
Next ==
  \/ \E d \in ScanDomains : ScanTls(1, d)
  \/ \E e \in DnsErrMsgs : LookupError(1, e)
  \/ \E l \in AddrLists : LookupReturn(1, l)
  \/ \E i \in 1..MaxAddrs : OnTimeout(1, i)
  \/ \E i \in 1..MaxAddrs, e \in NetErrMsgs : NetError(1, i, e)
  \/ \E i \in 1..MaxAddrs : OnError(1, i)
  \/ \E i \in 1..MaxAddrs, hs \in CoreHandshakes : OnSecureConnect(1, i, hs)
  \/ Resume(1)
  \/ Unauthorized(1)
  \/ Respond(1)
  \/ Tick

Spec == Init /\ [][Next]_vars

\* One scan, every argument, a few lookup results and one handshake
NextValidate ==
  \/ \E d \in Domains : ScanTls(1, d)
  \/ \E e \in DnsErrMsgs : LookupError(1, e)
  \/ \E l \in FewAddrLists : LookupReturn(1, l)
  \/ \E i \in 1..MaxAddrs : OnTimeout(1, i)
  \/ \E i \in 1..MaxAddrs : NetError(1, i, Chars("reset"))
  \/ \E i \in 1..MaxAddrs : OnError(1, i)
  \/ \E i \in 1..MaxAddrs : OnSecureConnect(1, i, BaseHandshake)
  \/ Resume(1)
  \/ Unauthorized(1)
  \/ Respond(1)
  \/ Tick

SpecValidate == Init /\ [][NextValidate]_vars

\* One scan of one domain, a few lookup results, every handshake
NextCert ==
  \/ ScanTls(1, Chars("a-B.io"))
  \/ \E e \in DnsErrMsgs : LookupError(1, e)
  \/ \E l \in FewAddrLists : LookupReturn(1, l)
  \/ \E i \in 1..MaxAddrs : OnTimeout(1, i)
  \/ \E i \in 1..MaxAddrs : NetError(1, i, Chars("reset"))
  \/ \E i \in 1..MaxAddrs : OnError(1, i)
  \/ \E i \in 1..MaxAddrs, hs \in Handshakes : OnSecureConnect(1, i, hs)
  \/ Resume(1)
  \/ Unauthorized(1)
  \/ Respond(1)
  \/ Tick

SpecCert == Init /\ [][NextCert]_vars

\* Two scans at once, a few arguments, lookup results and handshakes
NextConc ==
  \E s \in Scans :
    \/ \E d \in {Chars("a-B.io"), Chars("::1")} : ScanTls(s, d)
    \/ LookupError(s, Chars("ENOTFOUND"))
    \/ \E l \in FewAddrLists : LookupReturn(s, l)
    \/ \E i \in 1..MaxAddrs : OnTimeout(s, i)
    \/ \E i \in 1..MaxAddrs : NetError(s, i, Chars("reset"))
    \/ \E i \in 1..MaxAddrs : OnError(s, i)
    \/ \E i \in 1..MaxAddrs, hs \in CoreHandshakes : OnSecureConnect(s, i, hs)
    \/ Resume(s)
    \/ Unauthorized(s)
    \/ Respond(s)
    \/ Tick

SpecConc == Init /\ [][NextConc]_vars

\* One scan of one domain, every lookup result, one failure and one
\* handshake; a timer that is armed fires, an error that a socket emits
\* reaches its handler and a settled promise resumes its await
NextLive ==
  \/ \E d \in {Chars("a-B.io"), <<>>} : ScanTls(1, d)
  \/ LookupError(1, Chars("ENOTFOUND"))
  \/ \E l \in AddrLists : LookupReturn(1, l)
  \/ \E i \in 1..MaxAddrs : OnTimeout(1, i)
  \/ \E i \in 1..MaxAddrs : NetError(1, i, Chars("reset"))
  \/ \E i \in 1..MaxAddrs : OnError(1, i)
  \/ \E i \in 1..MaxAddrs : OnSecureConnect(1, i, BaseHandshake)
  \/ Resume(1)
  \/ Unauthorized(1)
  \/ Respond(1)
  \/ Tick

SpecLive ==
  /\ Init
  /\ [][NextLive]_vars
  /\ WF_vars(\E i \in 1..MaxAddrs : OnTimeout(1, i))
  /\ WF_vars(\E i \in 1..MaxAddrs : OnError(1, i))
  /\ WF_vars(Resume(1))

----------------------------------------------------------------------------
(* Properties of the trial loop, checked under Spec *)

\* the attempt whose handshake succeeded, when the scan has returned
Winner(s) == socks[s][idx[s]]

\* C1 (as claimed; the code returns the whole candidate list): the
\* resolvedIPs of a returned result holds exactly one address, the
\* candidate whose handshake succeeded.
C1_ResolvedIPsIsWinner ==
  \A s \in Scans :
    pc[s] = "done" => result[s].resolvedIPs = <<Winner(s).ip>>

\* C2: the attempts of a scan are a prefix of its candidate list, in order
\* and one per candidate; at most one attempt is pending; every attempt
\* before the latest one has failed, so that none follows a success.
C2_AttemptsArePrefix ==
  \A s \in Scans :
    /\ Len(socks[s]) <= Len(resolvedIPs[s])
    /\ \A i \in DOMAIN socks[s] : socks[s][i].ip = resolvedIPs[s][i]
    /\ Cardinality({i \in DOMAIN socks[s] : socks[s][i].promise = "pending"}) <= 1
    /\ \A i \in DOMAIN socks[s] :
         i < Len(socks[s]) => socks[s][i].promise = "rejected"

C2_Witness ==
  \E s \in Scans :
    /\ Len(socks[s]) = 3
    /\ socks[s][3].promise = "resolved"
    /\ pc[s] = "done"

\* every candidate of scan s was attempted and every attempt was aborted by
\* its timer
AllTimedOut(s) ==
  /\ socks[s] # <<>>
  /\ Len(socks[s]) = Len(resolvedIPs[s])
  /\ \A i \in DOMAIN socks[s] : socks[s][i].timer = "fired"

\* C3: when every candidate's attempt is aborted by its timer, the scan
\* returns no result and the error it throws is the timeout error, status 504.
C3_AllTimeoutsGive504 ==
  \A s \in Scans :
    AllTimedOut(s) =>
      /\ pc[s] # "done"
      /\ result[s] = Undefined
      /\ pc[s] = "failed" =>
           /\ error[s].status = 504
           /\ error[s].message = Chars("TLS error: timeout")

C3_Witness ==
  \E s \in Scans :
    AllTimedOut(s) /\ Len(socks[s]) >= 2 /\ pc[s] = "failed"

\* C4: when all candidates fail, the error thrown carries the message and
\* the status of the last candidate's failure, whatever the earlier failures
\* were; the generic failure appears only when no error was recorded.
C4_LastErrorWins ==
  \A s \in Scans :
    (pc[s] = "failed" /\ socks[s] # <<>>) =>
      LET last == socks[s][Len(socks[s])]
      IN /\ Len(socks[s]) = Len(resolvedIPs[s])
         /\ last.promise = "rejected"
         /\ error[s].message = last.value.message
         /\ error[s].status = last.value.status
         /\ error[s].status = 504 => TestTimeout(last.value.message)
         /\ error[s].message = TlsConnectFailedMsg => lastErr[s] = Undefined

C4_Witness ==
  \E s \in Scans :
    /\ pc[s] = "failed"
    /\ Len(socks[s]) >= 2
    /\ socks[s][1].timer = "fired"
    /\ error[s].status = 502
    /\ error[s].message = Chars("TLS error: reset")

\* C5: the expiry of the timer of an attempt destroys its socket; the error
\* the destroyed socket emits rejects the attempt; and when the loop resumes
\* on the rejection it records the error and goes on to the next candidate,
\* or fails when none is left, as for any connection error.
C5_Step ==
  \A s \in Scans :
    /\ \A i \in DOMAIN socks[s] :
         /\ (socks[s][i].timer = "armed" /\ socks'[s][i].timer = "fired") =>
              /\ socks'[s][i].state = "destroyed"
              /\ socks'[s][i].pendingErr = TimeoutMsg
         /\ (socks[s][i].timer = "fired" /\ socks[s][i].pendingErr # Null
               /\ socks'[s][i].pendingErr = Null) =>
              /\ socks'[s][i].promise = "rejected"
              /\ socks'[s][i].value.status = 504
    /\ (/\ pc[s] = "await"
        /\ socks[s][idx[s]].timer = "fired"
        /\ socks[s][idx[s]].promise = "rejected"
        /\ <<pc[s], idx[s], lastErr[s]>>' # <<pc[s], idx[s], lastErr[s]>>) =>
         /\ lastErr'[s] = socks[s][idx[s]].value
         /\ result'[s] = Undefined
         /\ IF idx[s] < Len(resolvedIPs[s])
            THEN /\ pc'[s] = "await"
                 /\ idx'[s] = idx[s] + 1
                 /\ Len(socks'[s]) = Len(socks[s]) + 1
                 /\ socks'[s][idx[s] + 1].ip = resolvedIPs[s][idx[s] + 1]
                 /\ socks'[s][idx[s] + 1].state = "connecting"
            ELSE pc'[s] = "failed"

C5_TimeoutIsAnError == [][C5_Step]_vars

C5_Witness ==
  \E s \in Scans :
    /\ Len(socks[s]) >= 2
    /\ socks[s][1].timer = "fired"
    /\ socks[s][1].state = "destroyed"
    /\ socks[s][2].state = "connecting"
    /\ lastErr[s].status = 504

\* C7: once the lookup has failed, or has returned no record of family 4 or
\* 6, the scan has failed with the error of the resolution stage and has
\* created no socket.
C7_ResolutionErrorsTerminal ==
  \A s \in Scans :
    /\ (lookup[s] # Undefined /\ ~lookup[s].ok) =>
         /\ pc[s] = "failed"
         /\ error[s].message = Chars("DNS lookup failed: ") \o lookup[s].message
         /\ error[s].status = 502
         /\ socks[s] = <<>>
         /\ result[s] = Undefined
    /\ (/\ lookup[s] # Undefined
        /\ lookup[s].ok
        /\ \A i \in DOMAIN lookup[s].addrs :
             lookup[s].addrs[i].family \notin {4, 6}) =>
         /\ pc[s] = "failed"
         /\ error[s].message = Chars("No A/AAAA records")
         /\ error[s].status = 502
         /\ socks[s] = <<>>
         /\ result[s] = Undefined

C7_Witness ==
  \E s \in Scans :
    /\ lookup[s] # Undefined
    /\ ~lookup[s].ok
    /\ lookup[s].message = Chars("ENOTFOUND")
    /\ pc[s] = "failed"

\* out is a stable partition of the address records in: the same records,
\* family 4 before family 6, each family in its order in in
IsStablePartition(in, out) ==
  /\ Len(out) = Len(in)
  /\ \E f \in [1..Len(in) -> 1..Len(in)] :
       /\ \A i, j \in 1..Len(in) : i # j => f[i] # f[j]
       /\ \A i \in 1..Len(in) : out[f[i]] = in[i].address
       /\ \A i, j \in 1..Len(in) :
            (in[i].family = 4 /\ in[j].family = 6) => f[i] < f[j]
       /\ \A i, j \in 1..Len(in) :
            (in[i].family = in[j].family /\ i < j) => f[i] < f[j]

\* C8: the candidate list the scan tries is a stable partition of the
\* lookup result, IPv4 first.
C8_CandidatesStablePartition ==
  \A s \in Scans :
    (lookup[s] # Undefined /\ lookup[s].ok /\ lookup[s].addrs # <<>>) =>
      /\ IsStablePartition(lookup[s].addrs, resolvedIPs[s])
      /\ \A i \in DOMAIN socks[s] : socks[s][i].ip = resolvedIPs[s][i]

C8_Witness ==
  \E s \in Scans :
    /\ lookup[s] # Undefined
    /\ lookup[s].ok
    /\ Len(lookup[s].addrs) = 3
    /\ lookup[s].addrs[1].family = 6
    /\ lookup[s].addrs[2].family = 4
    /\ lookup[s].addrs[3].family = 4
    /\ Len(socks[s]) = 3

----------------------------------------------------------------------------
(* Properties of the validation, checked under SpecValidate *)

\* host is four groups of one to three decimal digits separated by dots
IsDottedQuad(host) ==
  LET dots == {i \in 1..Len(host) : host[i] = "."}
      ends == dots \cup {0, Len(host) + 1}
  IN /\ Cardinality(dots) = 3
     /\ \A i \in 1..Len(host) : host[i] \in Digits \cup {"."}
     /\ \A a \in ends : a <= Len(host) =>
          LET b == CHOOSE e \in ends : e > a /\ \A m \in ends : m > a => e <= m
          IN b - a - 1 \in 1..3

\* host is written with hexadecimal digits and colons, with a colon
IsColonHexLiteral(host) ==
  /\ \E i \in 1..Len(host) : host[i] = ":"
  /\ \A i \in 1..Len(host) : host[i] \in HexChars \cup {"A", "B", "C", "D", "E", "F", ":"}

FailsHostnameSyntax(host) ==
  \/ host = <<>>
  \/ \E i \in 1..Len(host) : host[i] \notin HostChars
  \/ IsDottedQuad(host)
  \/ IsColonHexLiteral(host)

\* C6: a scan whose argument fails hostname syntax has failed with the
\* invalid-domain error, status 400, has called dns.lookup never and has
\* created no socket.
C6_InvalidDomainNoNetwork ==
  \A s \in Scans :
    (pc[s] # "idle" /\ FailsHostnameSyntax(domain[s])) =>
      /\ pc[s] = "failed"
      /\ error[s].message = Chars("Invalid domain")
      /\ error[s].status = 400
      /\ result[s] = Undefined
      /\ dnsLookups[s] = 0
      /\ lookup[s] = Undefined
      /\ socks[s] = <<>>

C6_Witness ==
  \E s \in Scans :
    /\ domain[s] = Chars("192.168.0.1")
    /\ pc[s] = "failed"
    /\ error[s].status = 400
    /\ dnsLookups[s] = 0

----------------------------------------------------------------------------
(* Properties of the certificate extraction, checked under SpecCert *)

CertFields ==
  {"cn", "issuer", "notBefore", "notAfter", "san", "signatureAlgorithm",
   "keyType", "keyBitsOrCurve", "fingerprint256"}

\* a certificate info with every field absent
AbsentCert ==
  [cn |-> Null, issuer |-> Null, notBefore |-> Null, notAfter |-> Null,
   san |-> <<>>, signatureAlgorithm |-> Null, keyType |-> "unknown",
   keyBitsOrCurve |-> Null, fingerprint256 |-> Null]

\* the position, among the statements of the raw-bytes branch, of the
\* assignment of each field
AssignedAt ==
  [cn |-> 7, issuer |-> 3, notBefore |-> 4, notAfter |-> 5, san |-> 8,
   signatureAlgorithm |-> 6, keyType |-> 10, keyBitsOrCurve |-> 11,
   fingerprint256 |-> 2]

\* C9: an attempt whose handshake completed has resolved, whatever statement
\* of the extraction raised: the fields assigned before that statement have
\* the values of the extraction that raises nothing, the others are absent;
\* the scan does not fail, and returns that certificate info.
C9_ExtractionNeverFails ==
  \A s \in Scans :
    \A i \in DOMAIN socks[s] :
      socks[s][i].hs # Undefined =>
        LET hs == socks[s][i].hs
            full == ExtractCert([hs EXCEPT !.throwAt = 0])
        IN /\ socks[s][i].promise = "resolved"
           /\ (hs.peer.raw /\ hs.throwAt > 0) =>
                \A f \in CertFields :
                  socks[s][i].value.cert[f] =
                    IF AssignedAt[f] < hs.throwAt THEN full[f]
                    ELSE AbsentCert[f]
           /\ pc[s] # "failed"
           /\ pc[s] = "done" =>
                /\ result[s] # Undefined
                /\ result[s].cert = socks[s][i].value.cert

C9_Witness ==
  \E s \in Scans :
    /\ pc[s] = "done"
    /\ Winner(s).hs.throwAt = 10
    /\ Winner(s).hs.x.ktype = "rsa"
    /\ result[s].cert.cn = Chars("a.io")
    /\ result[s].cert.keyType = "unknown"

\* the timestamp of a date string of the summary, absent when the summary
\* has none
SummaryInstant(d) == IF d = Null \/ d = <<>> THEN Null ELSE <<"iso", d[2]>>

\* C10: when the raw bytes are unavailable the attempt resolves with a
\* certificate info whose cn, issuer, notBefore and notAfter come from the
\* summary and whose other fields are absent, and the scan returns it.
C10_SummaryFallback ==
  \A s \in Scans :
    \A i \in DOMAIN socks[s] :
      (socks[s][i].hs # Undefined /\ ~socks[s][i].hs.peer.raw) =>
        LET peer == socks[s][i].hs.peer
        IN /\ socks[s][i].promise = "resolved"
           /\ socks[s][i].value.cert =
                [cn |-> peer.subjectCN,
                 issuer |-> peer.issuerCN,
                 notBefore |-> SummaryInstant(peer.valid_from),
                 notAfter |-> SummaryInstant(peer.valid_to),
                 san |-> <<>>,
                 signatureAlgorithm |-> Null,
                 keyType |-> "unknown",
                 keyBitsOrCurve |-> Null,
                 fingerprint256 |-> Null]
           /\ pc[s] # "failed"
           /\ pc[s] = "done" => result[s].cert = socks[s][i].value.cert

C10_Witness ==
  \E s \in Scans :
    /\ pc[s] = "done"
    /\ ~Winner(s).hs.peer.raw
    /\ result[s].cert.cn = Chars("a.io")
    /\ result[s].cert.notAfter = <<"iso", 9>>
    /\ result[s].cert.fingerprint256 = Null


\* C11: an attempt whose handshake completed has had socket.end() called
\* once its data was captured and by the time its result is delivered,
\* whether the extraction completed, took the fallback branch or raised;
\* no socket is ended before its data was captured.
C11_ClosedAfterCapture ==
  \A s \in Scans :
    /\ \A i \in DOMAIN socks[s] :
         /\ socks[s][i].hs # Undefined => socks[s][i].writableEnded
         /\ socks[s][i].promise = "resolved" =>
              (socks[s][i].writableEnded /\ socks[s][i].hs # Undefined)
         /\ socks[s][i].writableEnded => socks[s][i].hs # Undefined
    /\ pc[s] = "done" => Winner(s).writableEnded

C11_Witness ==
  \E s \in Scans :
    /\ pc[s] = "done"
    /\ Winner(s).hs.peer.raw
    /\ Winner(s).hs.throwAt = 1
    /\ Winner(s).writableEnded
    /\ result[s].cert.fingerprint256 = Null


\* C12: in a returned result the TLS parameters and the certificate fields
\* are those of the connection of the candidate that succeeded; the attempts
\* that failed before it completed no handshake and captured nothing.
C12_ResultFromWinnerOnly ==
  \A s \in Scans :
    pc[s] = "done" =>
      LET w == Winner(s)
      IN /\ w.hs # Undefined
         /\ \A i \in DOMAIN socks[s] :
              i # idx[s] =>
                /\ socks[s][i].hs = Undefined
                /\ socks[s][i].promise = "rejected"
                /\ socks[s][i].value.status \in {502, 504}
         /\ result[s].tlsVersion = w.hs.protocol
         /\ result[s].alpn = OrElse(w.hs.alpnProtocol, Null)
         /\ result[s].cipherSuite = OrElse(w.hs.cipherName, Null)
         /\ result[s].cert = ExtractCert(w.hs)
         /\ result[s].cert.fingerprint256 # Null => w.hs.peer.raw

C12_Witness ==
  \E s \in Scans :
    /\ pc[s] = "done"
    /\ idx[s] = 2
    /\ socks[s][1].timer = "fired"
    /\ Winner(s).hs.x.fingerprint256 = Chars("AB:0C:9F")
    /\ result[s].cert.fingerprint256 = Chars("AB0C9F")


----------------------------------------------------------------------------
(* Properties of the posture flags, checked under SpecCert *)

\* the characters a and b are the same letter, in whatever case, or the same
\* character
SameLetter(a, b) ==
  a = b \/ \E k \in 1..26 : {a, b} = {LowerSeq[k], UpperSeq[k]}

\* str, when present, contains word without regard to case
ContainsCI(str, word) ==
  /\ str # Null
  /\ \E i \in 0..(Len(str) - Len(word)) :
       \A j \in 1..Len(word) : SameLetter(str[i + j], word[j])

\* the bit length of the key of a result v extracted from the session hs,
\* 0 when the result has none
BitLength(v, hs) ==
  IF v.cert.keyBitsOrCurve = Null \/ hs.x.modulusLength = NoNumber THEN 0
  ELSE hs.x.modulusLength

\* the results the attempts have resolved with, each with its session
Resolved ==
  UNION {{<<socks[s][i].value, socks[s][i].hs>> :
            i \in {k \in DOMAIN socks[s] : socks[s][k].promise = "resolved"}} :
         s \in Scans}

\* C13: weak_alg is true exactly when the key is RSA with a bit length below
\* 2048 (0 when missing), or the signature algorithm contains "sha1", or the
\* cipher suite name contains "RC4" or "3DES", case-insensitively; RSA 1024
\* is weak, RSA 2048 with strong parameters is not.
C13_WeakAlgorithm ==
  /\ \A r \in Resolved :
       LET v == r[1]
       IN /\ v.posture.weak_alg =
               (\/ v.cert.keyType = "rsa" /\ BitLength(v, r[2]) < 2048
                \/ ContainsCI(v.cert.signatureAlgorithm, Chars("sha1"))
                \/ ContainsCI(v.cipherSuite, Chars("RC4"))
                \/ ContainsCI(v.cipherSuite, Chars("3DES")))
          /\ (v.cert.keyType = "rsa" /\ v.cert.keyBitsOrCurve = Chars("1024")) =>
               v.posture.weak_alg
          /\ (/\ v.cert.keyType = "rsa"
              /\ v.cert.keyBitsOrCurve = Chars("2048")
              /\ v.cert.signatureAlgorithm = Chars("sha256WithRSA")
              /\ v.cipherSuite = Chars("TLS_AES_128_GCM_SHA256")) =>
               ~v.posture.weak_alg
  /\ \A s \in Scans : pc[s] = "done" => result[s].posture = Winner(s).value.posture

C13_Witness ==
  \E s \in Scans :
    /\ pc[s] = "done"
    /\ result[s].cert.keyType = "rsa"
    /\ result[s].cert.keyBitsOrCurve = Chars("1024")
    /\ result[s].cert.signatureAlgorithm = Chars("sha256WithRSA")
    /\ result[s].posture.weak_alg

\* C14: tls_ok is true exactly when the negotiated version is TLSv1.2 or
\* TLSv1.3; TLSv1.1, any other version and an absent version give false.
C14_TlsOk ==
  /\ \A r \in Resolved :
       /\ r[1].tlsVersion = r[2].protocol
       /\ r[1].posture.tls_ok =
            (r[1].tlsVersion \in {Chars("TLSv1.2"), Chars("TLSv1.3")})
       /\ r[1].tlsVersion \in {Chars("TLSv1.1"), Null} => ~r[1].posture.tls_ok
  /\ \A s \in Scans :
       pc[s] = "done" =>
         /\ result[s].tlsVersion = Winner(s).value.tlsVersion
         /\ result[s].posture.tls_ok = Winner(s).value.posture.tls_ok

C14_Witness ==
  \E s \in Scans :
    /\ pc[s] = "done"
    /\ result[s].tlsVersion = Chars("TLSv1.1")
    /\ ~result[s].posture.tls_ok

\* C15: pqc_ready is "no" exactly when keyType is rsa or ec and "unknown"
\* for every other key type, among them the results of the fallback branch
\* and of an extraction that raised; it is never "partial".
C15_PqcReady ==
  /\ \A r \in Resolved :
       /\ r[1].posture.pqc_ready \in {"no", "unknown"}
       /\ r[1].posture.pqc_ready = "no" <=> r[1].cert.keyType \in {"rsa", "ec"}
       /\ r[1].cert.keyType \in {"rsa", "ec", "ed25519", "ed448", "unknown"}
       /\ (~r[2].peer.raw \/ r[2].throwAt \in 1..10) =>
            (r[1].cert.keyType = "unknown" /\ r[1].posture.pqc_ready = "unknown")
  /\ \A s \in Scans :
       pc[s] = "done" =>
         /\ result[s].posture.pqc_ready = Winner(s).value.posture.pqc_ready
         /\ result[s].cert.keyType = Winner(s).value.cert.keyType

C15_Witness ==
  \E s \in Scans :
    /\ pc[s] = "done"
    /\ Winner(s).hs.x.ktype = "ec"
    /\ Winner(s).hs.throwAt = 0
    /\ Winner(s).hs.peer.raw
    /\ result[s].cert.keyType = "ec"
    /\ result[s].posture.pqc_ready = "no"


----------------------------------------------------------------------------
(* Properties of the GET /scan handler, checked under Spec *)

\* C16: a request that passed the key guard is answered at most once, and
\* once its handler has finished exactly once: with status 200 and the
\* result when the scan returned, otherwise with {error: message} and the
\* status of the kind of failure: 400 for an invalid domain, 502 for a
\* resolution failure or a handshake error, 504 for a handshake timeout.
C16_OneResponsePerRequest ==
  \A s \in Scans :
    /\ Len(http[s].sent) <= 1
    /\ http[s].state = "finished" => Len(http[s].sent) = 1
    /\ http[s].state # "finished" => http[s].sent = <<>>
    /\ (http[s].state = "finished" /\ pc[s] # "idle") =>
         LET r == http[s].sent[1]
         IN /\ pc[s] \in {"done", "failed"}
            /\ pc[s] = "done" => (r.status = 200 /\ r.body = result[s])
            /\ pc[s] = "failed" =>
                 /\ r.body = [error |-> error[s].message]
                 /\ r.status \in {400, 502, 504}
                 /\ r.status = 400 <=> dnsLookups[s] = 0
                 /\ (dnsLookups[s] = 1 /\ socks[s] = <<>>) => r.status = 502
                 /\ socks[s] # <<>> =>
                      LET last == socks[s][Len(socks[s])]
                      IN /\ last.timer = "fired" => r.status = 504
                         /\ r.status = 504 <=>
                              ContainsCI(last.value.message, Chars("timeout"))

C16_Witness ==
  \E s \in Scans :
    /\ http[s].state = "finished"
    /\ pc[s] = "failed"
    /\ Len(socks[s]) >= 2
    /\ socks[s][Len(socks[s])].timer = "fired"
    /\ http[s].sent[1].status = 504


----------------------------------------------------------------------------
(* Properties of concurrent scans, checked under SpecConc *)

\* everything scan s holds
ScanState(s) ==
  <<pc[s], domain[s], dnsLookups[s], lookup[s], resolvedIPs[s], scannedAt[s],
    lastErr[s], idx[s], socks[s], result[s], error[s], http[s]>>

\* what scan s returns or throws when it runs alone with its argument, its
\* lookup result and the outcomes of its handshake attempts
Alone(s) ==
  IF ~isAsciiHostname(domain[s])
  THEN [ok |-> FALSE, value |-> InvalidDomainError]
  ELSE IF ~lookup[s].ok
  THEN [ok |-> FALSE, value |-> DnsError(lookup[s].message)]
  ELSE IF SortAddrs(lookup[s].addrs) = <<>>
  THEN [ok |-> FALSE, value |-> NoRecordsError]
  ELSE LET ips == MapAddress(SortAddrs(lookup[s].addrs))
           won == {i \in DOMAIN socks[s] : socks[s][i].hs # Undefined}
       IN IF won # {}
          THEN LET i == CHOOSE k \in won : TRUE
               IN [ok |-> TRUE,
                   value |-> ReturnValue(
                     ConnectResult(domain[s], ips[i], socks[s][i].hs, 0),
                     ips, scannedAt[s])]
          ELSE [ok |-> FALSE,
                value |-> MkError(socks[s][Len(ips)].value.message,
                                  socks[s][Len(ips)].value.status)]

Outcome(s) ==
  IF pc[s] = "done" THEN [ok |-> TRUE, value |-> result[s]]
  ELSE [ok |-> FALSE, value |-> error[s]]

\* C17: with two scans interleaved in any order, what a scan returns or
\* throws is what it returns or throws alone with the same lookup result
\* and handshake outcomes, and no step of one scan changes anything the
\* other scan holds.
C17_ScansIndependent ==
  /\ [](\A s \in Scans : pc[s] \in {"done", "failed"} => Outcome(s) = Alone(s))
  /\ [][\A s, t \in Scans :
          (s # t /\ ScanState(s)' # ScanState(s)) => ScanState(t)' = ScanState(t)]_vars

C17_Witness ==
  /\ pc[1] = "failed"
  /\ Len(socks[1]) = 2
  /\ error[1].message = Chars("TLS error: reset")
  /\ pc[2] = "done"
  /\ idx[2] = 2
  /\ lastErr[2].status = 504
  /\ result[2].resolvedIPs = <<"192.0.2.1", "2001:db8::1">>


----------------------------------------------------------------------------
(* Properties of the timestamp, checked under Spec *)

\* C18 (as claimed; the code returns the timestamp taken before the loop):
\* the scannedAt of a returned result is the timestamp the secureConnect
\* handler of the successful attempt took.
C18_HandlerTimestampWins ==
  \A s \in Scans :
    pc[s] = "done" => result[s].scannedAt = Winner(s).value.scannedAt


----------------------------------------------------------------------------
(* Properties of the validation, continued, checked under SpecValidate *)

\* C19 (as claimed; the code also rejects the names written with
\* hexadecimal digits only): an argument of 1 to 255 characters of
\* [A-Za-z0-9.-] that is no dotted quad and has no colon is accepted and
\* goes on to the DNS lookup.
C19_OnlyThreeRulesReject ==
  \A s \in Scans :
    (/\ pc[s] # "idle"
     /\ Len(domain[s]) \in 1..255
     /\ \A i \in 1..Len(domain[s]) : domain[s][i] \in HostChars
     /\ ~IsDottedQuad(domain[s])
     /\ \A i \in 1..Len(domain[s]) : domain[s][i] # ":") =>
      /\ dnsLookups[s] = 1
      /\ error[s] # InvalidDomainError


----------------------------------------------------------------------------
(* Properties of termination, checked under SpecLive *)

\* a timer is armed only while its attempt is pending, a resolved attempt
\* had its timer cleared, and a scan makes no more attempts than it has
\* candidates
C20_State ==
  \A s \in Scans :
    /\ Len(socks[s]) <= Len(resolvedIPs[s])
    /\ \A i \in DOMAIN socks[s] :
         /\ socks[s][i].timer = "armed" => socks[s][i].promise = "pending"
         /\ socks[s][i].promise = "resolved" => socks[s][i].timer = "cleared"
         /\ socks[s][i].promise = "rejected" =>
              socks[s][i].timer \in {"cleared", "fired"}

\* an attempt that has settled keeps its outcome, and its timer does not
\* fire afterwards
C20_Step ==
  \A s \in Scans :
    \A i \in DOMAIN socks[s] :
      socks[s][i].promise # "pending" =>
        /\ socks'[s][i].promise = socks[s][i].promise
        /\ socks'[s][i].value = socks[s][i].value
        /\ socks'[s][i].timer = socks[s][i].timer

\* C20: every attempt settles once, by secureConnect, by a socket error or
\* by its timer, and its timer is cancelled whenever it settles otherwise;
\* so a scan that has its candidates ends with a result or an error, after
\* at most as many attempts as candidates.
C20_AttemptsSettleOnceAndScanEnds ==
  /\ []C20_State
  /\ [][C20_Step]_vars
  /\ \A s \in {1} : (pc[s] = "await") ~> (pc[s] \in {"done", "failed"})

C20_Witness ==
  \E s \in Scans :
    /\ pc[s] = "failed"
    /\ Len(socks[s]) = 3
    /\ socks[s][1].timer = "fired"
    /\ socks[s][2].timer = "cleared"
    /\ socks[s][3].timer = "fired"

====
